---- MODULE Spec2Model ----
(***************************************************************************)
(* Model of src/app.py, the Streamlit study planner script.                *)
(*                                                                         *)
(* One script run is modelled line by line: the form values, the deadline  *)
(* check, extract_text_from_file (one step per PDF page), the syllabus     *)
(* preparation, the crew.kickoff call and the result display.              *)
(*                                                                         *)
(* Characters are Unicode code points (32 = space, 10 = newline, 97 = a,   *)
(* 160 = no-break space).  A text is a run-length encoded string: a        *)
(* sequence of <<code point, count>> runs with count >= 1 and no two       *)
(* adjacent runs of the same code point, so that texts longer than the     *)
(* 15000 character limit of line 118 are representable.  A byte string is  *)
(* a sequence of <<byte, count>> runs.  Short strings (subject, file name, *)
(* str() of a number or date) are plain sequences of code points.          *)
(***************************************************************************)
EXTENDS Integers, Sequences, FiniteSets, TLC

VARIABLES
    clock,            \* the calendar date of the machine (datetime.date.today())
    submit,           \* st.form_submit_button value of this run (line 95)
    sub,              \* st.text_input value (line 88)
    date,             \* st.date_input value (line 89)
    uploaded_file,    \* st.file_uploader value (line 92): <<>> is None, <<f>> a file
    pc,               \* position of the script run
    today,            \* line 107
    days_remaining,   \* line 108
    text,             \* local of extract_text_from_file (lines 29-42)
    page,             \* index of the next page of the loop of line 34
    syllabus_content, \* lines 114-118
    calls,            \* inputs of every crew.kickoff call of this run (line 130)
    outcome,          \* how the crew.kickoff call ended: "none", "returned", "raised"
    result,           \* result.raw (line 130)
    shown,            \* the messages and widgets this run has rendered
    metric_days,      \* value of the "Total Days" metric (line 143)
    table,            \* markdown rendered in the container (line 151)
    download          \* data and file_name of the download button (lines 154-160)

vars == <<clock, submit, sub, date, uploaded_file, pc, today, days_remaining,
          text, page, syllabus_content, calls, outcome, result, shown,
          metric_days, table, download>>

form == <<submit, sub, date, uploaded_file>>
outputs == <<shown, metric_days, table, download>>
callstate == <<calls, outcome, result>>

-----------------------------------------------------------------------------
(* Bounds of the model *)

MaxSubLen == 2     \* longest subject name
MaxSegs == 2       \* most runs of bytes in an uploaded .txt file
MaxPages == 2      \* most pages of an uploaded PDF
DateSpan == 2      \* the calendar window is DateSpan + 1 consecutive days

-----------------------------------------------------------------------------
(* Strings *)

RECURSIVE TextLen(_)
TextLen(t) == IF t = <<>> THEN 0 ELSE t[1][2] + TextLen(Tail(t))

\* s + t of two run-length encoded strings
Cat(s, t) ==
    IF s = <<>> THEN t
    ELSE IF t = <<>> THEN s
    ELSE IF s[Len(s)][1] = t[1][1]
         THEN SubSeq(s, 1, Len(s) - 1)
                \o << <<t[1][1], s[Len(s)][2] + t[1][2]>> >> \o Tail(t)
         ELSE s \o t

\* str.isspace() of one character
IsSpace(c) ==
    c \in {9, 10, 11, 12, 13, 28, 29, 30, 31, 32, 133, 160, 5760, 8232, 8233,
           8239, 8287, 12288} \cup (8192..8202)

RECURSIVE LStrip(_)
LStrip(t) == IF t # <<>> /\ IsSpace(t[1][1]) THEN LStrip(Tail(t)) ELSE t

RECURSIVE RStrip(_)
RStrip(t) ==
    IF t # <<>> /\ IsSpace(t[Len(t)][1]) THEN RStrip(SubSeq(t, 1, Len(t) - 1))
    ELSE t

\* str.strip()
Strip(t) == RStrip(LStrip(t))

\* a slice that keeps the whole string
SliceKeepsAll(t, n) == t

\* t[:n]
RECURSIVE Slice(_, _)
Slice(t, n) ==
    IF t = <<>> \/ n <= 0 THEN <<>>
    ELSE IF t[1][2] >= n THEN << <<t[1][1], n>> >>
    ELSE <<t[1]>> \o Slice(Tail(t), n - t[1][2])

\* str.endswith on plain strings
EndsWith(s, suffix) ==
    /\ Len(s) >= Len(suffix)
    /\ SubSeq(s, Len(s) - Len(suffix) + 1, Len(s)) = suffix

\* a replace that stops after the first occurrence
ReplaceFirstSpace(s) ==
    IF \E i \in 1..Len(s) : s[i] = 32
      THEN LET k == CHOOSE i \in 1..Len(s) :
                        s[i] = 32 /\ \A j \in 1..(i - 1) : s[j] # 32
           IN  SubSeq(s, 1, k - 1) \o <<95>> \o SubSeq(s, k + 1, Len(s))
      ELSE s

\* str.replace(' ', '_') on a plain string
RECURSIVE ReplaceSpaces(_)
ReplaceSpaces(s) ==
    IF s = <<>> THEN <<>>
    ELSE <<IF s[1] = 32 THEN 95 ELSE s[1]>> \o ReplaceSpaces(Tail(s))

\* str() of an integer
RECURSIVE NatStr(_)
NatStr(n) == IF n < 10 THEN <<48 + n>> ELSE NatStr(n \div 10) \o <<48 + (n % 10)>>

IntStr(n) == IF n < 0 THEN <<45>> \o NatStr(0 - n) ELSE NatStr(n)

\* "%0*d" of a natural number
RECURSIVE Pad(_, _)
Pad(s, width) == IF Len(s) >= width THEN s ELSE Pad(<<48>> \o s, width)

-----------------------------------------------------------------------------
(* datetime.date *)

IsLeap(y) == y % 4 = 0 /\ (y % 100 # 0 \/ y % 400 = 0)

DaysInMonth(y, m) ==
    IF m = 2 THEN (IF IsLeap(y) THEN 29 ELSE 28)
    ELSE IF m \in {4, 6, 9, 11} THEN 30 ELSE 31

RECURSIVE DaysBeforeMonth(_, _)
DaysBeforeMonth(y, m) ==
    IF m = 1 THEN 0 ELSE DaysBeforeMonth(y, m - 1) + DaysInMonth(y, m - 1)

DaysBeforeYear(y) ==
    (y - 1) * 365 + ((y - 1) \div 4) - ((y - 1) \div 100) + ((y - 1) \div 400)

\* date.toordinal()
ToOrdinal(d) == DaysBeforeYear(d.year) + DaysBeforeMonth(d.year, d.month) + d.day

\* (a - b).days
DaysBetween(a, b) == ToOrdinal(a) - ToOrdinal(b)

\* str(date): ISO format YYYY-MM-DD
DateStr(d) ==
    Pad(NatStr(d.year), 4) \o <<45>> \o Pad(NatStr(d.month), 2) \o <<45>>
        \o Pad(NatStr(d.day), 2)

FirstDay == [year |-> 2024, month |-> 2, day |-> 28]

Dates ==
    {d \in [year : {2024}, month : 2..3, day : 1..31] :
        /\ d.day <= DaysInMonth(d.year, d.month)
        /\ DaysBetween(d, FirstDay) \in 0..DateSpan}

NoDate == [year |-> 1, month |-> 1, day |-> 1]

-----------------------------------------------------------------------------
(* bytes.decode("utf-8") *)

\* The bytes of the modelled files: space, a, 0xC2 (lead byte of a two byte
\* sequence, not valid without a continuation byte) and 0xA0 (continuation
\* byte, not valid on its own; 0xC2 0xA0 is U+00A0).  Three and four byte
\* sequences are outside the alphabet.
Bytes == {32, 97, 194, 160}

\* decode of a run-length encoded byte string: [ok, text]; ok = FALSE is
\* UnicodeDecodeError
RECURSIVE Utf8Decode(_)
Utf8Decode(b) ==
    IF b = <<>> THEN [ok |-> TRUE, text |-> <<>>]
    ELSE IF b[1][1] < 128 THEN
        LET rest == Utf8Decode(Tail(b))
        IN  [ok |-> rest.ok, text |-> Cat(<<b[1]>>, rest.text)]
    ELSE IF b[1][1] \in 194..223 THEN
        IF b[1][2] # 1 \/ Len(b) < 2 THEN [ok |-> FALSE, text |-> <<>>]
        ELSE IF b[2][1] \notin 128..191 THEN [ok |-> FALSE, text |-> <<>>]
        ELSE LET cp == (b[1][1] - 192) * 64 + (b[2][1] - 128)
                 after == IF b[2][2] = 1 THEN SubSeq(b, 3, Len(b))
                          ELSE << <<b[2][1], b[2][2] - 1>> >> \o SubSeq(b, 3, Len(b))
                 rest == Utf8Decode(after)
             IN  [ok |-> rest.ok, text |-> Cat(<< <<cp, 1>> >>, rest.text)]
    ELSE [ok |-> FALSE, text |-> <<>>]

-----------------------------------------------------------------------------
(* Program constants *)

TruncLimit == 15000

\* line 116
Fallback ==
    <<<<78, 1>>, <<111, 1>>, <<32, 1>>, <<115, 1>>, <<121, 1>>, <<108, 2>>,
      <<97, 1>>, <<98, 1>>, <<117, 1>>, <<115, 1>>, <<32, 1>>, <<112, 1>>,
      <<114, 1>>, <<111, 1>>, <<118, 1>>, <<105, 1>>, <<100, 1>>, <<101, 1>>,
      <<100, 1>>, <<46, 1>>, <<32, 1>>, <<80, 1>>, <<108, 1>>, <<101, 1>>,
      <<97, 1>>, <<115, 1>>, <<101, 1>>, <<32, 1>>, <<103, 1>>, <<101, 1>>,
      <<110, 1>>, <<101, 1>>, <<114, 1>>, <<97, 1>>, <<116, 1>>, <<101, 1>>,
      <<32, 1>>, <<97, 1>>, <<32, 1>>, <<115, 1>>, <<116, 1>>, <<97, 1>>,
      <<110, 1>>, <<100, 1>>, <<97, 1>>, <<114, 1>>, <<100, 1>>, <<32, 1>>,
      <<99, 1>>, <<111, 1>>, <<109, 1>>, <<112, 1>>, <<114, 1>>, <<101, 1>>,
      <<104, 1>>, <<101, 1>>, <<110, 1>>, <<115, 1>>, <<105, 1>>, <<118, 1>>,
      <<101, 1>>, <<32, 1>>, <<99, 1>>, <<117, 1>>, <<114, 2>>, <<105, 1>>,
      <<99, 1>>, <<117, 1>>, <<108, 1>>, <<117, 1>>, <<109, 1>>, <<32, 1>>,
      <<98, 1>>, <<97, 1>>, <<115, 1>>, <<101, 1>>, <<100, 1>>, <<32, 1>>,
      <<111, 1>>, <<110, 1>>, <<32, 1>>, <<116, 1>>, <<104, 1>>, <<101, 1>>,
      <<32, 1>>, <<115, 1>>, <<117, 1>>, <<98, 1>>, <<106, 1>>, <<101, 1>>,
      <<99, 1>>, <<116, 1>>, <<32, 1>>, <<110, 1>>, <<97, 1>>, <<109, 1>>,
      <<101, 1>>, <<46, 1>>>>

PdfSuffix == <<46, 112, 100, 102>>      \* ".pdf"
TxtSuffix == <<46, 116, 120, 116>>      \* ".txt"

\* "_study_plan.md"
PlanSuffix == <<95, 115, 116, 117, 100, 121, 95, 112, 108, 97, 110, 46, 109, 100>>

-----------------------------------------------------------------------------
(* Inputs *)

RECURSIVE SeqsUpTo(_, _)
SeqsUpTo(S, n) ==
    IF n = 0 THEN {<<>>}
    ELSE LET shorter == SeqsUpTo(S, n - 1)
         IN  shorter \cup {Append(s, x) : s \in {t \in shorter : Len(t) = n - 1}, x \in S}

Subjects == SeqsUpTo({97, 32}, MaxSubLen)

\* runs of one byte, and a run of spaces as long as the limit of line 118
ByteRuns == {<<b, 1>> : b \in Bytes} \cup {<<32, TruncLimit>>}

ByteStrings == SeqsUpTo(ByteRuns, MaxSegs)

\* what page.extract_text() does on one page: raise, return None, or return
\* a string
PageOutcomes ==
    {[kind |-> "raise", text |-> <<>>], [kind |-> "none", text |-> <<>>]}
        \cup {[kind |-> "text", text |-> t] :
                t \in {<<>>, << <<97, 1>> >>, << <<32, TruncLimit>> >>}}

\* what pdfplumber does with the file: open raises, or the pages
PdfViews ==
    {[open_raises |-> TRUE, pages |-> <<>>]}
        \cup {[open_raises |-> FALSE, pages |-> p] : p \in SeqsUpTo(PageOutcomes, MaxPages)}

NotPdf == [open_raises |-> TRUE, pages |-> <<>>]

\* "s.pdf", "s.txt", "s.TXT" (accepted by the uploader, whose extension check
\* ignores case)
PdfName == <<115>> \o PdfSuffix
TxtName == <<115>> \o TxtSuffix
UpperName == <<115, 46, 84, 88, 84>>

\* An uploaded file: its name, its bytes and what pdfplumber makes of them.
\* The component the code does not read for that name is fixed.
Files ==
    {[name |-> PdfName, bytes |-> <<>>, pdf |-> v] : v \in PdfViews}
        \cup {[name |-> n, bytes |-> b, pdf |-> NotPdf] :
                n \in {TxtName}, b \in ByteStrings}
        \cup {[name |-> UpperName, bytes |-> << <<97, 1>> >>, pdf |-> NotPdf]}

Uploads == {<<>>} \cup {<<f>> : f \in Files}

\* result.raw of a crew.kickoff call that returns
RawResults == {<< <<124, 1>> >>, << <<97, 1>>, <<32, 1>> >>}

-----------------------------------------------------------------------------
(* The script *)

NoDownload == [data |-> <<>>, file_name |-> <<>>]

\* the state a script run starts from
RunStart ==
    /\ pc = "run"
    /\ today = NoDate
    /\ days_remaining = 0
    /\ text = <<>>
    /\ page = 1
    /\ syllabus_content = <<>>
    /\ calls = <<>>
    /\ outcome = "none"
    /\ result = <<>>
    /\ shown = {}
    /\ metric_days = 0
    /\ table = <<>>
    /\ download = NoDownload

\* the first run of a session: nothing submitted, empty form, date_input
\* defaults to today
Init ==
    /\ clock \in Dates
    /\ submit = FALSE
    /\ sub = <<>>
    /\ date = clock
    /\ uploaded_file = <<>>
    /\ RunStart

\* the day after d
NextDay(d) ==
    IF d.day < DaysInMonth(d.year, d.month) THEN [d EXCEPT !.day = d.day + 1]
    ELSE IF d.month < 12 THEN [year |-> d.year, month |-> d.month + 1, day |-> 1]
    ELSE [year |-> d.year + 1, month |-> 1, day |-> 1]

LastDay == CHOOSE d \in Dates : DaysBetween(d, FirstDay) = DateSpan

\* midnight passes (within the calendar window)
Tick ==
    /\ clock # LastDay
    /\ clock' = NextDay(clock)
    /\ UNCHANGED <<form, pc, today, days_remaining, text, page,
                   syllabus_content, callstate, outputs>>

\* lines 98-103
ShowEmptyState ==
    /\ pc = "run"
    /\ ~submit
    /\ shown' = shown \cup {"info"}
    /\ pc' = "done"
    /\ UNCHANGED <<clock, form, today, days_remaining, text, page,
                   syllabus_content, callstate, metric_days, table, download>>

\* lines 106-108
ReadToday ==
    /\ pc = "run"
    /\ submit
    /\ today' = clock
    /\ days_remaining' = DaysBetween(date, clock)
    /\ pc' = "check"
    /\ UNCHANGED <<clock, form, text, page, syllabus_content, callstate,
                   outputs>>

\* lines 110-111
RejectDeadline ==
    /\ pc = "check"
    /\ days_remaining <= 0
    /\ shown' = shown \cup {"deadline_error"}
    /\ pc' = "done"
    /\ UNCHANGED <<clock, form, today, days_remaining, text, page,
                   syllabus_content, callstate, metric_days, table, download>>

\* lines 114, 29-30, 42: no file
ExtractNoFile ==
    /\ pc = "check"
    /\ days_remaining > 0
    /\ uploaded_file = <<>>
    /\ text' = <<>>
    /\ pc' = "prepare"
    /\ UNCHANGED <<clock, form, today, days_remaining, page, syllabus_content,
                   callstate, outputs>>

\* an open without the try block: the exception leaves the script
ExtractOpenPdfUncaught ==
    /\ pc = "check"
    /\ days_remaining > 0
    /\ uploaded_file # <<>>
    /\ EndsWith(uploaded_file[1].name, PdfSuffix)
    /\ text' = <<>>
    /\ page' = 1
    /\ pc' = IF uploaded_file[1].pdf.open_raises THEN "crashed" ELSE "pages"
    /\ UNCHANGED <<clock, form, today, days_remaining, syllabus_content,
                   callstate, outputs>>

\* lines 114, 29-33, 38-39: pdfplumber.open
ExtractOpenPdf ==
    /\ pc = "check"
    /\ days_remaining > 0
    /\ uploaded_file # <<>>
    /\ EndsWith(uploaded_file[1].name, PdfSuffix)
    /\ text' = <<>>
    /\ page' = 1
    /\ IF uploaded_file[1].pdf.open_raises
         THEN shown' = shown \cup {"pdf_error"} /\ pc' = "prepare"
         ELSE shown' = shown /\ pc' = "pages"
    /\ UNCHANGED <<clock, form, today, days_remaining, syllabus_content,
                   callstate, metric_days, table, download>>

\* a page loop that joins the pages without the newline
ExtractPageNoNewline ==
    /\ pc = "pages"
    /\ page <= Len(uploaded_file[1].pdf.pages)
    /\ LET page_text == uploaded_file[1].pdf.pages[page]
       IN  IF page_text.kind = "raise"
             THEN /\ shown' = shown \cup {"pdf_error"}
                  /\ pc' = "prepare"
                  /\ UNCHANGED <<text, page>>
             ELSE /\ text' = IF page_text.kind = "text" /\ page_text.text # <<>>
                               THEN Cat(text, page_text.text)
                               ELSE text
                  /\ page' = page + 1
                  /\ UNCHANGED <<shown, pc>>
    /\ UNCHANGED <<clock, form, today, days_remaining, syllabus_content,
                   callstate, metric_days, table, download>>

\* lines 34-39: one iteration of the page loop
ExtractPage ==
    /\ pc = "pages"
    /\ page <= Len(uploaded_file[1].pdf.pages)
    /\ LET page_text == uploaded_file[1].pdf.pages[page]
       IN  IF page_text.kind = "raise"
             THEN /\ shown' = shown \cup {"pdf_error"}
                  /\ pc' = "prepare"
                  /\ UNCHANGED <<text, page>>
             ELSE /\ text' = IF page_text.kind = "text" /\ page_text.text # <<>>
                               THEN Cat(Cat(text, page_text.text), << <<10, 1>> >>)
                               ELSE text
                  /\ page' = page + 1
                  /\ UNCHANGED <<shown, pc>>
    /\ UNCHANGED <<clock, form, today, days_remaining, syllabus_content,
                   callstate, metric_days, table, download>>

\* lines 34, 42: the loop ends
ExtractPdfDone ==
    /\ pc = "pages"
    /\ page > Len(uploaded_file[1].pdf.pages)
    /\ pc' = "prepare"
    /\ UNCHANGED <<clock, form, today, days_remaining, text, page,
                   syllabus_content, callstate, outputs>>

\* lines 114, 29-31, 40-42: a .txt file; a UnicodeDecodeError leaves the script
ExtractTxt ==
    /\ pc = "check"
    /\ days_remaining > 0
    /\ uploaded_file # <<>>
    /\ ~EndsWith(uploaded_file[1].name, PdfSuffix)
    /\ EndsWith(uploaded_file[1].name, TxtSuffix)
    /\ LET decoded == Utf8Decode(uploaded_file[1].bytes)
       IN  IF decoded.ok
             THEN text' = decoded.text /\ pc' = "prepare"
             ELSE text' = <<>> /\ pc' = "crashed"
    /\ UNCHANGED <<clock, form, today, days_remaining, page, syllabus_content,
                   callstate, outputs>>

\* lines 114, 29-31, 40, 42: any other name
ExtractOther ==
    /\ pc = "check"
    /\ days_remaining > 0
    /\ uploaded_file # <<>>
    /\ ~EndsWith(uploaded_file[1].name, PdfSuffix)
    /\ ~EndsWith(uploaded_file[1].name, TxtSuffix)
    /\ text' = <<>>
    /\ pc' = "prepare"
    /\ UNCHANGED <<clock, form, today, days_remaining, page, syllabus_content,
                   callstate, outputs>>

\* lines 115-119
PrepareSyllabus ==
    /\ pc = "prepare"
    /\ IF Strip(text) = <<>>
         THEN syllabus_content' = Fallback /\ shown' = shown
         ELSE /\ syllabus_content' = Slice(text, TruncLimit)
              /\ shown' = shown \cup {"loaded"}
    /\ pc' = "kickoff"
    /\ UNCHANGED <<clock, form, today, days_remaining, text, page, callstate,
                   metric_days, table, download>>

\* inputs that read the clock again for current_date
KickoffInputsRereadClock ==
    [subject |-> sub,
     deadline |-> DateStr(date),
     current_date |-> DateStr(clock),
     days_left |-> IntStr(days_remaining),
     syllabus_text |-> syllabus_content]

\* lines 130-136
KickoffInputs ==
    [subject |-> sub,
     deadline |-> DateStr(date),
     current_date |-> DateStr(today),
     days_left |-> IntStr(days_remaining),
     syllabus_text |-> syllabus_content]

\* lines 122-136: the call returns a result or raises
Kickoff ==
    /\ pc = "kickoff"
    /\ calls' = Append(calls, KickoffInputs)
    /\ \/ \E raw \in RawResults :
            result' = raw /\ outcome' = "returned" /\ pc' = "display"
       \/ result' = <<>> /\ outcome' = "raised" /\ pc' = "except"
    /\ UNCHANGED <<clock, form, today, days_remaining, text, page,
                   syllabus_content, outputs>>

\* line 157
DownloadName == ReplaceSpaces(sub) \o PlanSuffix

\* lines 139-160
DisplayResults ==
    /\ pc = "display"
    /\ shown' = shown \cup {"success", "metrics", "table", "download"}
    /\ metric_days' = days_remaining
    /\ table' = result
    /\ download' = [data |-> result, file_name |-> DownloadName]
    /\ pc' = "done"
    /\ UNCHANGED <<clock, form, today, days_remaining, text, page,
                   syllabus_content, callstate>>

\* lines 162-163
GenerationError ==
    /\ pc = "except"
    /\ shown' = shown \cup {"generation_error"}
    /\ pc' = "done"
    /\ UNCHANGED <<clock, form, today, days_remaining, text, page,
                   syllabus_content, callstate, metric_days, table, download>>

\* the user interacts with the page: the script is run again from the top,
\* the elements and locals of the previous run are discarded
Rerun ==
    /\ pc \in {"done", "crashed"}
    /\ pc' = "form"
    /\ submit' = FALSE
    /\ sub' = <<>>
    /\ date' = clock
    /\ uploaded_file' = <<>>
    /\ today' = NoDate
    /\ days_remaining' = 0
    /\ text' = <<>>
    /\ page' = 1
    /\ syllabus_content' = <<>>
    /\ calls' = <<>>
    /\ outcome' = "none"
    /\ result' = <<>>
    /\ shown' = {}
    /\ metric_days' = 0
    /\ table' = <<>>
    /\ download' = NoDownload
    /\ UNCHANGED clock

\* lines 87-95: the widgets of the form return the values of this run.  In a
\* run that the submit button did not start, the script reads none of the
\* other widgets (lines 98-106), and their values are fixed.
ReadForm ==
    /\ pc = "form"
    /\ \/ /\ submit' = TRUE
          /\ sub' \in Subjects
          /\ date' \in Dates
          /\ uploaded_file' \in Uploads
       \/ /\ submit' = FALSE
          /\ UNCHANGED <<sub, date, uploaded_file>>
    /\ pc' = "run"
    /\ UNCHANGED <<clock, today, days_remaining, text, page, syllabus_content,
                   callstate, outputs>>

Next ==
    \/ Tick
    \/ ShowEmptyState
    \/ ReadToday
    \/ RejectDeadline
    \/ ExtractNoFile
    \/ ExtractOpenPdf
    \/ ExtractPage
    \/ ExtractPdfDone
    \/ ExtractTxt
    \/ ExtractOther
    \/ PrepareSyllabus
    \/ Kickoff
    \/ DisplayResults
    \/ GenerationError
    \/ Rerun
    \/ ReadForm

Spec == Init /\ [][Next]_vars

-----------------------------------------------------------------------------
(* Vocabulary of the properties *)

Terminated == pc \in {"done", "crashed"}

\* extract_text_from_file has returned (line 42)
Extracted ==
    \/ pc \in {"prepare", "kickoff", "display", "except"}
    \/ pc = "done" /\ calls # <<>>

ResultWidgets == {"success", "metrics", "table", "download"}

\* every character of t is whitespace (also when t is empty)
AllSpace(t) == \A i \in 1..Len(t) : IsSpace(t[i][1])

Min(a, b) == IF a <= b THEN a ELSE b

\* s is an initial part of t
IsPrefix(s, t) ==
    \/ s = <<>>
    \/ /\ Len(s) <= Len(t)
       /\ \A i \in 1..(Len(s) - 1) : s[i] = t[i]
       /\ s[Len(s)][1] = t[Len(s)][1]
       /\ s[Len(s)][2] <= t[Len(s)][2]

\* s is the first n characters of t
IsFirstChars(s, t, n) == IsPrefix(s, t) /\ TextLen(s) = Min(TextLen(t), n)

\* the days of the first months of the year of the model
Calendar ==
    {d \in [year : {2024}, month : 1..4, day : 1..31] :
        d.day <= DaysInMonth(d.year, d.month)}

Earlier(a, b) ==
    \/ a.year < b.year
    \/ a.year = b.year /\ a.month < b.month
    \/ a.year = b.year /\ a.month = b.month /\ a.day < b.day

\* the number of days from a up to b, counted on the calendar; negative when
\* b is before a
DaysFromTo(a, b) ==
    IF Earlier(b, a)
      THEN 0 - Cardinality({d \in Calendar : ~Earlier(d, b) /\ Earlier(d, a)})
      ELSE Cardinality({d \in Calendar : ~Earlier(d, a) /\ Earlier(d, b)})

\* the value a decimal string denotes
RECURSIVE ParseNat(_)
ParseNat(s) ==
    IF s = <<>> THEN 0 ELSE 10 * ParseNat(SubSeq(s, 1, Len(s) - 1)) + (s[Len(s)] - 48)

IsDigits(s) == s # <<>> /\ \A i \in 1..Len(s) : s[i] \in 48..57

\* the date an ISO string YYYY-MM-DD denotes
ParseDate(s) ==
    [year |-> ParseNat(SubSeq(s, 1, 4)),
     month |-> ParseNat(SubSeq(s, 6, 7)),
     day |-> ParseNat(SubSeq(s, 9, 10))]

IsIsoDate(s) ==
    /\ Len(s) = 10
    /\ s[5] = 45 /\ s[8] = 45
    /\ IsDigits(SubSeq(s, 1, 4)) /\ IsDigits(SubSeq(s, 6, 7)) /\ IsDigits(SubSeq(s, 9, 10))

\* the UTF-8 encoding of a text, as a byte string
RECURSIVE Utf8Encode(_)
Utf8Encode(t) ==
    IF t = <<>> THEN <<>>
    ELSE IF t[1][1] < 128 THEN Cat(<<t[1]>>, Utf8Encode(Tail(t)))
    ELSE LET two == << <<192 + (t[1][1] \div 64), 1>>, <<128 + (t[1][1] % 64), 1>> >>
             rest == IF t[1][2] = 1 THEN Tail(t)
                     ELSE << <<t[1][1], t[1][2] - 1>> >> \o Tail(t)
         IN  Cat(two, Utf8Encode(rest))

\* a byte string with adjacent runs of the same byte merged
RECURSIVE MergeRuns(_)
MergeRuns(b) == IF b = <<>> THEN <<>> ELSE Cat(<<b[1]>>, MergeRuns(Tail(b)))

\* the number of pages in front of the first page whose extraction raises
RECURSIVE ReadablePages(_)
ReadablePages(pages) ==
    IF pages = <<>> \/ pages[1].kind = "raise" THEN 0
    ELSE 1 + ReadablePages(Tail(pages))

\* what the first k pages contribute, in page order: the text of each page
\* that has some, followed by a newline
RECURSIVE PagesText(_, _)
PagesText(pages, k) ==
    IF k = 0 THEN <<>>
    ELSE LET p == pages[k]
         IN  IF p.kind = "text" /\ p.text # <<>>
               THEN Cat(PagesText(pages, k - 1), Cat(p.text, << <<10, 1>> >>))
               ELSE PagesText(pages, k - 1)

HasFile == uploaded_file # <<>>
IsPdf == HasFile /\ EndsWith(uploaded_file[1].name, PdfSuffix)
IsTxt == HasFile /\ ~IsPdf /\ EndsWith(uploaded_file[1].name, TxtSuffix)

\* reading the uploaded PDF fails: at open, or at some page
PdfFails ==
    /\ IsPdf
    /\ \/ uploaded_file[1].pdf.open_raises
       \/ \E i \in 1..Len(uploaded_file[1].pdf.pages) :
              uploaded_file[1].pdf.pages[i].kind = "raise"

\* the text of the pages of the uploaded PDF that are read before a failure
PdfTextRead ==
    IF uploaded_file[1].pdf.open_raises THEN <<>>
    ELSE PagesText(uploaded_file[1].pdf.pages,
                   ReadablePages(uploaded_file[1].pdf.pages))

\* fn is s with every space replaced by "_", followed by "_study_plan.md"
IsPlanFileName(fn, s) ==
    /\ Len(fn) = Len(s) + Len(PlanSuffix)
    /\ \A i \in 1..Len(s) : fn[i] = (IF s[i] = 32 THEN 95 ELSE s[i])
    /\ SubSeq(fn, Len(s) + 1, Len(fn)) = PlanSuffix

-----------------------------------------------------------------------------
(* Properties *)

\* C1: for every submitted form, a deadline today or in the past
\* (days <= 0) shows the deadline error and is followed by no extraction, no
\* crew.kickoff call and no result display; and the crew.kickoff call is
\* attempted if and only if the deadline is at least one day after today.
C1_DeadlineGate ==
    (Terminated /\ submit) =>
        /\ (calls # <<>>) <=> (DaysFromTo(today, date) >= 1)
        /\ (DaysFromTo(today, date) <= 0) =>
              /\ "deadline_error" \in shown
              /\ text = <<>>
              /\ shown \cap ({"pdf_error", "loaded", "generation_error"} \cup ResultWidgets) = {}

\* C2: in every crew.kickoff call current_date is the value of today read
\* once for the run, deadline is the submitted date, days_left is the number
\* of days from current_date to deadline and is at least 1; the Total Days
\* metric shown with the result is that same number.
C2_InputsConsistent ==
    \A i \in 1..Len(calls) :
        /\ IsIsoDate(calls[i].current_date)
        /\ IsIsoDate(calls[i].deadline)
        /\ IsDigits(calls[i].days_left)
        /\ ParseDate(calls[i].current_date) = today
        /\ ParseDate(calls[i].deadline) = date
        /\ ParseNat(calls[i].days_left)
             = DaysFromTo(ParseDate(calls[i].current_date), ParseDate(calls[i].deadline))
        /\ ParseNat(calls[i].days_left) >= 1
        /\ "metrics" \in shown => metric_days = ParseNat(calls[i].days_left)

\* a result is on display for a two day plan across the leap day, computed
\* from a value of today that the clock has since left behind
C2_Witness ==
    /\ "metrics" \in shown
    /\ calls # <<>>
    /\ clock # today
    /\ metric_days = 2
    /\ date.month # today.month

\* C3: in every crew.kickoff call syllabus_text is the fallback sentence
\* exactly when the extracted text is empty or whitespace only, and otherwise
\* exactly the first 15000 characters of the extracted text, hence at most
\* 15000 characters long; the syllabus loaded message is shown exactly in the
\* second case.
C3_SyllabusTruncated ==
    \A i \in 1..Len(calls) :
        IF AllSpace(text)
          THEN /\ calls[i].syllabus_text = Fallback
               /\ "loaded" \notin shown
          ELSE /\ IsFirstChars(calls[i].syllabus_text, text, TruncLimit)
               /\ TextLen(calls[i].syllabus_text) <= TruncLimit
               /\ "loaded" \in shown

\* a call was made with a text cut down to 15000 characters
C3_Witness ==
    /\ calls # <<>>
    /\ TextLen(text) > TruncLimit
    /\ TextLen(calls[1].syllabus_text) = TruncLimit
    /\ calls[1].syllabus_text # text
    /\ "loaded" \in shown

\* C4: a run makes at most one crew.kickoff call: exactly one when the form
\* was submitted with a valid deadline, none when the form was not submitted
\* or the deadline was rejected.
C4_SingleCall ==
    /\ Len(calls) <= 1
    /\ Terminated =>
          Len(calls) = (IF submit /\ DaysFromTo(today, date) >= 1 THEN 1 ELSE 0)

\* C5: extract_text_from_file returns, for a .pdf name, the texts of the
\* pages in page order, each followed by a newline, without the pages whose
\* text is empty or None; for a .txt name, the text whose UTF-8 encoding is
\* the bytes of the file; for no file or any other name, the empty string.
C5_ExtractText ==
    Extracted =>
        IF ~HasFile THEN text = <<>>
        ELSE IF IsPdf THEN text = PdfTextRead
        ELSE IF IsTxt THEN Utf8Encode(text) = MergeRuns(uploaded_file[1].bytes)
        ELSE text = <<>>

\* a PDF was read to the end and at least two of its pages gave text
C5_Witness ==
    /\ pc = "prepare"
    /\ IsPdf
    /\ ~PdfFails
    /\ Len(text) >= 3
    /\ \E i \in 1..Len(uploaded_file[1].pdf.pages) :
           uploaded_file[1].pdf.pages[i].kind = "text"
                /\ uploaded_file[1].pdf.pages[i].text # <<>>

\* C6: when opening the PDF or extracting a page raises, the PDF error is
\* reported, the function returns the text of the pages read before the
\* failure, and the run goes on to the crew.kickoff call with that text or,
\* if it is blank, the fallback sentence.
C6_PdfFailureHandled ==
    /\ (Extracted /\ PdfFails) =>
          /\ "pdf_error" \in shown
          /\ text = PdfTextRead
          /\ \A i \in 1..Len(calls) :
                calls[i].syllabus_text
                    = (IF AllSpace(text) THEN Fallback ELSE Slice(text, TruncLimit))
          /\ pc \in {"display", "except", "done"} => Len(calls) = 1
    /\ "pdf_error" \in shown => (PdfFails /\ pc # "crashed")
    /\ (pc = "crashed") => ~IsPdf

\* a run ended after a page of the PDF raised, with the text of the page
\* before it forwarded
C6_Witness ==
    /\ pc = "done"
    /\ "pdf_error" \in shown
    /\ text # <<>>
    /\ Len(calls) = 1
    /\ calls[1].syllabus_text = text

\* C7: the result widgets (success message, metrics, table, download button)
\* appear only after crew.kickoff has returned without raising; when it
\* raised, the generation error is shown and none of them; the download data
\* is the displayed table text, result.raw, and the file name is the subject
\* with every space replaced by "_" followed by "_study_plan.md".
C7_DisplayAfterSuccess ==
    /\ (shown \cap ResultWidgets # {}) =>
          /\ outcome = "returned"
          /\ calls # <<>>
          /\ ResultWidgets \subseteq shown
          /\ "generation_error" \notin shown
          /\ table = result
          /\ download.data = table
          /\ IsPlanFileName(download.file_name, sub)
    /\ (outcome = "raised") => (shown \cap ResultWidgets = {})
    /\ (outcome = "raised" /\ pc = "done") => "generation_error" \in shown
    /\ "generation_error" \in shown => outcome = "raised"

\* the result of a plan whose subject has two spaces is on display
C7_Witness ==
    /\ "download" \in shown
    /\ Len(sub) >= 2
    /\ \A i \in 1..Len(sub) : sub[i] = 32
    /\ download.data # <<>>

\* C8: in every crew.kickoff call syllabus_text has at least one character
\* that is not whitespace.
C8_SyllabusNotBlank ==
    \A i \in 1..Len(calls) : ~AllSpace(calls[i].syllabus_text)

\* C9: no submitted run ends with an uncaught exception; every failure is
\* caught and reported by an error message.
C9_NoUncaught == pc # "crashed"

\* C10: the syllabus loaded message is never shown in a run that reported
\* a PDF error.
C10_LoadedOnlyIfNoError == ~("loaded" \in shown /\ "pdf_error" \in shown)

====
